---- MODULE Spec2Model ----
(***************************************************************************)
(* A model of the Double Ratchet session of goratchet (package             *)
(* doubleratchet): two peer sessions, alice and bob, the messages their    *)
(* Sends have produced, and the deliveries of those messages.              *)
(*                                                                         *)
(* Cryptography is symbolic.  A key is a record that names how it was      *)
(* derived, so two keys are equal exactly when they were derived the same  *)
(* way (HMAC and HKDF taken as collision free), a Diffie-Hellman output is *)
(* the unordered pair of the two private scalars, and a ciphertext names   *)
(* the message key, the plaintext and the associated data it was sealed    *)
(* under (AES-GCM opens only under the same key and associated data).      *)
(***************************************************************************)
EXTENDS Integers, Sequences, FiniteSets, TLC

VARIABLES
    sess,       \* party -> doubleRatchet (the fields of the struct)
    sent,       \* party -> the sequence of outputs of its Send calls
    saved,      \* the output of the Serialize call just made, if any
    refreshes,  \* private keys generated so far by diffieHellmanRatchet.refresh
    rotations,  \* the local rotations made so far
    track,      \* party -> what has been delivered to it so far
    last,       \* the last call and what it returned
    mu,         \* the sync.Mutex of alice's session: the goroutine inside, if any
    gor,        \* goroutine -> its call on alice's session and where it is in it
    acquired,   \* the calls in the order in which they got the lock, with results
    fuzzed      \* the number of invalid deliveries made so far

concVars == <<mu, gor, acquired>>

vars == <<sess, sent, saved, refreshes, rotations, track, last, mu, gor,
          acquired, fuzzed>>

----------------------------------------------------------------------------
(* Program constants and the bounds of the model.                          *)

\* const MaxSkip = 1000 in the source; scaled down so that the limit is reached.
MaxSkip == 3

\* sendN, recvN and prevN are uint32: arithmetic modulo 2^32 in the source.
\* The modulus is scaled down (the model checker's integers are 32 bits wide,
\* sign included); it stays above every count that the bounds below allow,
\* MaxWrapSends apart, which takes the counters through their largest value.
Uint32Mod == 8

\* Send calls of both parties together.
MaxSends == 4

\* Send calls of both parties together in the runs with rotations.
MaxRatchetSends == 3

\* Private keys generated after New (local rotations and ratchet steps).
MaxRefresh == 2

\* Calls that the goroutines make on the shared session, and the messages
\* the peer has sent to it, in the runs with goroutines.
MaxCalls == 3

MaxConcMsgs == 2

\* Send calls of both parties together in the runs with malformed deliveries,
\* and the largest N and PN that a malformed header carries.
MaxFuzzSends == 2

MaxFuzzN == 3

\* Invalid deliveries of a run.
MaxFuzz == 1

\* The most Send calls of a run in which a session is handed its own outputs.
MaxReflectSends == 3

\* The most Send calls, and the most key pairs drawn, of a run with replays
\* across retired chains.
MaxReplaySends == 3

MaxReplayRefresh == 5

\* Send calls in the runs where one party sends and the other receives.
MaxLongSends == 6

\* Send calls in the runs that take a counter to its largest value and on.
MaxWrapSends == Uint32Mod + 1

Party == {"alice", "bob"}

Peer(p) == IF p = "alice" THEN "bob" ELSE "alice"

\* The (plaintext, associated data) pairs handed to Send, and the associated
\* data handed to Receive.
Inputs == {<<"p1", "ad1">>, <<"p2", "ad2">>}

ADs == {"ad1", "ad2"}

NoErr == "nil"

ErrKeyNotFound == "message key not found"

ErrOutOfOrder == "received message out of order (old)"

ErrTooManySkipped == "too many skipped messages"

ErrAuth == "cipher: message authentication failed"

ErrInvalidKey == "crypto/ecdh: invalid public key"

----------------------------------------------------------------------------
(* crypto/ecdh on P-256.                                                   *)

\* PrivateKey.PublicKey().Bytes(): the encoded point of a private scalar.
PublicKey(pri) == <<"P256", pri>>

\* ecdh.P256().NewPublicKey: only an encoded point of the curve parses.
ValidPublicKey(pubBytes) == pubBytes[1] = "P256"

\* PrivateKey.ECDH: both sides of a pair compute the same secret.
ECDH(pri, pubBytes) == {pri, pubBytes[2]}

\* bytes.Compare(a, b) < 0 on two encoded points.
BytesLess(a, b) == a[2] < b[2]

----------------------------------------------------------------------------
(* pkg/crypto: key derivation and AEAD.                                    *)

\* DeriveHKDF(secret, salt, info, 32): the first 32 bytes of the expansion.
\* hist is the input keying material absorbed so far, the salt first.
DeriveHKDF(secret, salt, info) ==
    [kind |-> "ck", hist |-> Append(salt, secret), info |-> info, n |-> 0]

\* The nil salt of New(localPri, remotePub, nil).
NilSalt == << >>

\* DeriveRK(rk, dhOut): HKDF with the root key as salt, 64 bytes, split in
\* the next root key (first half) and the next chain key (second half).
DeriveRK(rk, dhOut) ==
    [rk |-> [kind |-> "ck", hist |-> Append(rk.hist, dhOut),
             info |-> "DoubleRatchet-Root", n |-> 0],
     ck |-> [kind |-> "ck", hist |-> Append(rk.hist, dhOut),
             info |-> "DoubleRatchet-Root/2", n |-> 0]]

\* DeriveCK(ck): mk = HMAC(ck, 0x01), nextCk = HMAC(ck, 0x02).
DeriveCK(ck) ==
    [nextCk |-> [ck EXCEPT !.n = @ + 1], mk |-> [ck EXCEPT !.kind = "mk"]]

\* Encrypt(mk, plaintext, ad): nonce || gcm.Seal(nonce, plaintext, ad).
Encrypt(mk, plaintext, ad) == [key |-> mk, pt |-> plaintext, ad |-> ad]

\* Decrypt that does not authenticate the associated data.
MutDecryptNoAD(mk, ciphertext, ad) ==
    IF ciphertext.key = mk
    THEN [err |-> NoErr, plaintext |-> ciphertext.pt]
    ELSE [err |-> ErrAuth, plaintext |-> "none"]

\* Decrypt that opens a ciphertext under any key.
MutDecryptAnyKey(mk, ciphertext, ad) ==
    IF ciphertext.ad = ad /\ ciphertext.key.kind = "mk"
    THEN [err |-> NoErr, plaintext |-> ciphertext.pt]
    ELSE [err |-> ErrAuth, plaintext |-> "none"]

\* Decrypt(mk, ciphertextWithNonce, ad): gcm.Open fails unless the key and the
\* associated data are those of Seal.
Decrypt(mk, ciphertext, ad) ==
    IF ciphertext.key = mk /\ ciphertext.ad = ad
    THEN [err |-> NoErr, plaintext |-> ciphertext.pt]
    ELSE [err |-> ErrAuth, plaintext |-> "none"]

----------------------------------------------------------------------------
(* package doubleratchet: headers and the skipped-key map.                 *)

\* Header.key(): the headerID of a header.
HeaderKey(h) == [dh |-> h.DH, n |-> h.N, pn |-> h.PN]

\* The map skippedMessageKeys is the set of its entries [id, mk].
MapHas(m, id) == \E e \in m : e.id = id

MapGet(m, id) == (CHOOSE e \in m : e.id = id).mk

MapPut(m, id, mk) == {e \in m : e.id # id} \cup {[id |-> id, mk |-> mk]}

MapDelete(m, id) == {e \in m : e.id # id}

----------------------------------------------------------------------------
(* package doubleratchet: the session.                                     *)

\* New that gives both peers the same direction labels.
MutNewSameLabels(localPri, remotePub, salt) ==
    LET sharedSecret == ECDH(localPri, remotePub)
    IN  [localPrivateKey |-> localPri,
         remotePublicKey |-> remotePub,
         rootKey |-> DeriveHKDF(sharedSecret, salt, "DoubleRatchet-Root"),
         sendChainKey |-> DeriveHKDF(sharedSecret, salt, "DoubleRatchet-Chain-1"),
         recvChainKey |-> DeriveHKDF(sharedSecret, salt, "DoubleRatchet-Chain-2"),
         sendN |-> 0, recvN |-> 0, prevN |-> 0,
         skippedMessageKeys |-> {}]

\* New(localPri, remotePub, salt) and doubleRatchet.init.
New(localPri, remotePub, salt) ==
    LET sharedSecret == ECDH(localPri, remotePub)
        less == BytesLess(PublicKey(localPri), remotePub)
        infoSend == IF less THEN "DoubleRatchet-Chain-1"
                            ELSE "DoubleRatchet-Chain-2"
        infoRecv == IF less THEN "DoubleRatchet-Chain-2"
                            ELSE "DoubleRatchet-Chain-1"
    IN  [localPrivateKey |-> localPri,
         remotePublicKey |-> remotePub,
         rootKey |-> DeriveHKDF(sharedSecret, salt, "DoubleRatchet-Root"),
         sendChainKey |-> DeriveHKDF(sharedSecret, salt, infoSend),
         recvChainKey |-> DeriveHKDF(sharedSecret, salt, infoRecv),
         sendN |-> 0, recvN |-> 0, prevN |-> 0,
         skippedMessageKeys |-> {}]

\* Send that uses the chain key and does not advance it.
MutSendKeepsChainKey(d, plaintext, ad) ==
    LET k == DeriveCK(d.sendChainKey)
        header == [DH |-> PublicKey(d.localPrivateKey),
                   N |-> d.sendN, PN |-> d.prevN]
    IN  [d |-> [d EXCEPT !.sendN = (d.sendN + 1) % Uint32Mod],
         err |-> NoErr,
         msg |-> [Header |-> header,
                  Ciphertext |-> Encrypt(k.mk, plaintext, ad)]]

\* Send that also writes the receiving side: it takes the receiving chain key
\* one step on.
MutSendStepsRecvChain(d, plaintext, ad) ==
    LET k == DeriveCK(d.sendChainKey)
        header == [DH |-> PublicKey(d.localPrivateKey),
                   N |-> d.sendN, PN |-> d.prevN]
    IN  [d |-> [d EXCEPT !.sendChainKey = k.nextCk,
                         !.sendN = (d.sendN + 1) % Uint32Mod,
                         !.recvChainKey = DeriveCK(d.recvChainKey).nextCk],
         err |-> NoErr,
         msg |-> [Header |-> header,
                  Ciphertext |-> Encrypt(k.mk, plaintext, ad)]]

\* doubleRatchet.Send, between Lock and Unlock.
Send(d, plaintext, ad) ==
    LET k == DeriveCK(d.sendChainKey)
        header == [DH |-> PublicKey(d.localPrivateKey),
                   N |-> d.sendN, PN |-> d.prevN]
    IN  [d |-> [d EXCEPT !.sendChainKey = k.nextCk,
                         !.sendN = (d.sendN + 1) % Uint32Mod],
         err |-> NoErr,
         msg |-> [Header |-> header,
                  Ciphertext |-> Encrypt(k.mk, plaintext, ad)]]

\* trySkippedMessageKeys without the delete after use.
MutTrySkippedKeepsKey(d, header, ciphertext, ad) ==
    IF MapHas(d.skippedMessageKeys, HeaderKey(header))
    THEN LET r == Decrypt(MapGet(d.skippedMessageKeys, HeaderKey(header)),
                          ciphertext, ad)
         IN  [d |-> d, err |-> r.err, plaintext |-> r.plaintext]
    ELSE [d |-> d, err |-> ErrKeyNotFound, plaintext |-> "none"]

\* doubleRatchet.trySkippedMessageKeys.
trySkippedMessageKeys(d, header, ciphertext, ad) ==
    IF MapHas(d.skippedMessageKeys, HeaderKey(header))
    THEN LET r == Decrypt(MapGet(d.skippedMessageKeys, HeaderKey(header)),
                          ciphertext, ad)
         IN  IF r.err # NoErr
             THEN [d |-> d, err |-> r.err, plaintext |-> "none"]
             ELSE [d |-> [d EXCEPT !.skippedMessageKeys =
                                 MapDelete(@, HeaderKey(header))],
                   err |-> NoErr, plaintext |-> r.plaintext]
    ELSE [d |-> d, err |-> ErrKeyNotFound, plaintext |-> "none"]

\* A skip loop that derives the keys and does not keep them.
RECURSIVE MutSkipLoopNoStore(_, _, _)
MutSkipLoopNoStore(d, until, target) ==
    IF until < target
    THEN LET k == DeriveCK(d.recvChainKey)
         IN  MutSkipLoopNoStore([d EXCEPT !.recvChainKey = k.nextCk,
                                          !.recvN = (d.recvN + 1) % Uint32Mod],
                                until + 1, target)
    ELSE d

\* The loop of skipMessageKeys: for until < target { ... until++; recvN++ }.
RECURSIVE SkipLoop(_, _, _)
SkipLoop(d, until, target) ==
    IF until < target
    THEN LET k == DeriveCK(d.recvChainKey)
             header == [DH |-> d.remotePublicKey, N |-> until, PN |-> d.prevN]
         IN  SkipLoop([d EXCEPT !.recvChainKey = k.nextCk,
                                !.skippedMessageKeys =
                                    MapPut(@, HeaderKey(header), k.mk),
                                !.recvN = (d.recvN + 1) % Uint32Mod],
                      until + 1, target)
    ELSE d

\* skipMessageKeys with the limit test of an older copy (> for >=).
MutSkipGreater(d, until, target) ==
    IF target < until
    THEN [d |-> d, err |-> ErrOutOfOrder]
    ELSE IF (target - until) % Uint32Mod > MaxSkip
    THEN [d |-> d, err |-> ErrTooManySkipped]
    ELSE [d |-> SkipLoop(d, until, target), err |-> NoErr]

\* skipMessageKeys with a limit one too low.
MutSkipOneLess(d, until, target) ==
    IF target < until
    THEN [d |-> d, err |-> ErrOutOfOrder]
    ELSE IF (target - until) % Uint32Mod >= MaxSkip - 1
    THEN [d |-> d, err |-> ErrTooManySkipped]
    ELSE [d |-> SkipLoop(d, until, target), err |-> NoErr]

\* skipMessageKeys without the test for a target behind the chain.
MutSkipNoOldTest(d, until, target) ==
    IF target >= until /\ (target - until) % Uint32Mod >= MaxSkip
    THEN [d |-> d, err |-> ErrTooManySkipped]
    ELSE [d |-> SkipLoop(d, until, target), err |-> NoErr]

\* doubleRatchet.skipMessageKeys(until, target).
skipMessageKeys(d, until, target) ==
    IF target < until
    THEN [d |-> d, err |-> ErrOutOfOrder]
    ELSE IF (target - until) % Uint32Mod >= MaxSkip
    THEN [d |-> d, err |-> ErrTooManySkipped]
    ELSE [d |-> SkipLoop(d, until, target), err |-> NoErr]

\* dhRatchet that keeps in prevN the length of the sending chain it ends.
MutDhRatchetPrevFromSend(d, remotePubBytes, newPri) ==
    LET d0 == [d EXCEPT !.prevN = d.sendN, !.recvN = 0, !.sendN = 0]
    IN  IF ~ValidPublicKey(remotePubBytes)
        THEN [d |-> d0, err |-> ErrInvalidKey]
        ELSE LET k1 == DeriveRK(d0.rootKey,
                                ECDH(d0.localPrivateKey, remotePubBytes))
                 k2 == DeriveRK(k1.rk, ECDH(newPri, remotePubBytes))
             IN  [d |-> [d0 EXCEPT !.remotePublicKey = remotePubBytes,
                                   !.recvChainKey = k1.ck,
                                   !.localPrivateKey = newPri,
                                   !.rootKey = k2.rk,
                                   !.sendChainKey = k2.ck],
                  err |-> NoErr]

\* doubleRatchet.dhRatchet(remotePubBytes); newPri is the private key that
\* diffieHellmanRatchet.refresh draws.
dhRatchet(d, remotePubBytes, newPri) ==
    LET d0 == [d EXCEPT !.prevN = d.recvN, !.recvN = 0, !.sendN = 0]
    IN  IF ~ValidPublicKey(remotePubBytes)
        THEN [d |-> d0, err |-> ErrInvalidKey]
        ELSE LET k1 == DeriveRK(d0.rootKey,
                                ECDH(d0.localPrivateKey, remotePubBytes))
                 k2 == DeriveRK(k1.rk, ECDH(newPri, remotePubBytes))
             IN  [d |-> [d0 EXCEPT !.remotePublicKey = remotePubBytes,
                                   !.recvChainKey = k1.ck,
                                   !.localPrivateKey = newPri,
                                   !.rootKey = k2.rk,
                                   !.sendChainKey = k2.ck],
                  err |-> NoErr]

\* The end of Receive: derive the message key, advance, decrypt.
ReceiveDecrypt(d, msg, ad) ==
    LET k == DeriveCK(d.recvChainKey)
        d1 == [d EXCEPT !.recvChainKey = k.nextCk,
                        !.recvN = (d.recvN + 1) % Uint32Mod]
        r == Decrypt(k.mk, msg.Ciphertext, ad)
    IN  [d |-> d1, err |-> r.err, plaintext |-> r.plaintext, ratchet |-> FALSE]

\* Receive after the ratchet test: skip to the header's N, then decrypt.
ReceiveChain(d, msg, ad) ==
    LET s == skipMessageKeys(d, d.recvN, msg.Header.N)
    IN  IF s.err # NoErr
        THEN [d |-> s.d, err |-> s.err, plaintext |-> "none", ratchet |-> FALSE]
        ELSE ReceiveDecrypt(s.d, msg, ad)

\* Receive that ratchets without first skipping to the header's PN on the
\* chain it leaves.
MutReceiveNoPrevSkip(d, msg, ad, newPri) ==
    LET t == trySkippedMessageKeys(d, msg.Header, msg.Ciphertext, ad)
    IN  IF t.err = NoErr
        THEN [d |-> t.d, err |-> NoErr, plaintext |-> t.plaintext,
              ratchet |-> FALSE]
        ELSE IF msg.Header.DH # d.remotePublicKey
        THEN LET r == dhRatchet(d, msg.Header.DH, newPri)
             IN  IF r.err # NoErr
                 THEN [d |-> r.d, err |-> r.err, plaintext |-> "none",
                       ratchet |-> TRUE]
                 ELSE [ReceiveChain(r.d, msg, ad) EXCEPT !.ratchet = TRUE]
        ELSE ReceiveChain(d, msg, ad)

\* Receive without the test of the header's DH: it never calls dhRatchet.
MutReceiveNoRatchet(d, msg, ad, newPri) ==
    LET t == trySkippedMessageKeys(d, msg.Header, msg.Ciphertext, ad)
    IN  IF t.err = NoErr
        THEN [d |-> t.d, err |-> NoErr, plaintext |-> t.plaintext,
              ratchet |-> FALSE]
        ELSE ReceiveChain(d, msg, ad)

\* Receive without the comparison of the header's DH: it takes a ratchet step
\* for every message that no stored key decrypts.
MutReceiveAlwaysRatchets(d, msg, ad, newPri) ==
    LET t == trySkippedMessageKeys(d, msg.Header, msg.Ciphertext, ad)
    IN  IF t.err = NoErr
        THEN [d |-> t.d, err |-> NoErr, plaintext |-> t.plaintext,
              ratchet |-> FALSE]
        ELSE LET s == skipMessageKeys(d, d.recvN, msg.Header.PN)
             IN  IF s.err # NoErr
                 THEN [d |-> s.d, err |-> s.err, plaintext |-> "none",
                       ratchet |-> FALSE]
                 ELSE LET r == dhRatchet(s.d, msg.Header.DH, newPri)
                      IN  IF r.err # NoErr
                          THEN [d |-> r.d, err |-> r.err, plaintext |-> "none",
                                ratchet |-> TRUE]
                          ELSE [ReceiveChain(r.d, msg, ad)
                                    EXCEPT !.ratchet = TRUE]

\* doubleRatchet.Receive, between Lock and Unlock.  ratchet tells whether
\* dhRatchet was called.
Receive(d, msg, ad, newPri) ==
    LET t == trySkippedMessageKeys(d, msg.Header, msg.Ciphertext, ad)
    IN  IF t.err = NoErr
        THEN [d |-> t.d, err |-> NoErr, plaintext |-> t.plaintext,
              ratchet |-> FALSE]
        ELSE IF msg.Header.DH # d.remotePublicKey
        THEN LET s == skipMessageKeys(d, d.recvN, msg.Header.PN)
             IN  IF s.err # NoErr
                 THEN [d |-> s.d, err |-> s.err, plaintext |-> "none",
                       ratchet |-> FALSE]
                 ELSE LET r == dhRatchet(s.d, msg.Header.DH, newPri)
                      IN  IF r.err # NoErr
                          THEN [d |-> r.d, err |-> r.err, plaintext |-> "none",
                                ratchet |-> TRUE]
                          ELSE [ReceiveChain(r.d, msg, ad)
                                    EXCEPT !.ratchet = TRUE]
        ELSE ReceiveChain(d, msg, ad)

\* Whether Receive(d, msg, ad) reaches dhRatchet and draws a private key.
NeedsRefresh(d, msg, ad) ==
    /\ trySkippedMessageKeys(d, msg.Header, msg.Ciphertext, ad).err # NoErr
    /\ msg.Header.DH # d.remotePublicKey
    /\ skipMessageKeys(d, d.recvN, msg.Header.PN).err = NoErr
    /\ ValidPublicKey(msg.Header.DH)

\* The local rotation of TestDiffieHellmanRatchetStep: dh.refresh, dh.exchange
\* with the stored remote key, DeriveRK, prevN = sendN, sendN = 0.
Rotation(d, newPri) ==
    LET k == DeriveRK(d.rootKey, ECDH(newPri, d.remotePublicKey))
    IN  [d EXCEPT !.localPrivateKey = newPri,
                  !.rootKey = k.rk,
                  !.sendChainKey = k.ck,
                  !.prevN = d.sendN,
                  !.sendN = 0]

----------------------------------------------------------------------------
(* Serialize and Deserialize.                                              *)

\* PrivateKey.Bytes() and ecdh.P256().NewPrivateKey.
PrivateBytes(pri) == <<"scalar", pri>>

ValidPrivateKey(priBytes) == priBytes[1] = "scalar"

\* The sequences that list the elements of S once each: the orders in which
\* range over a Go map can visit its entries.
Orderings(S) ==
    {f \in [1..Cardinality(S) -> S] : \A i, j \in DOMAIN f : i # j => f[i] # f[j]}

\* doubleRatchet.Serialize, between Lock and Unlock: the State it marshals,
\* the skipped keys in the order `order`.
Serialize(d, order) ==
    [RootKey |-> d.rootKey,
     SendChainKey |-> d.sendChainKey,
     RecvChainKey |-> d.recvChainKey,
     SendN |-> d.sendN, RecvN |-> d.recvN, PrevN |-> d.prevN,
     SkippedKeys |-> [i \in DOMAIN order |->
                        [Header |-> [DH |-> order[i].id.dh, N |-> order[i].id.n,
                                     PN |-> order[i].id.pn],
                         Key |-> order[i].mk]],
     LocalPri |-> PrivateBytes(d.localPrivateKey),
     RemotePub |-> d.remotePublicKey]

\* Serialize that empties the map it ranges over.
MutSerializeDrainsSkipped(d) == [d EXCEPT !.skippedMessageKeys = {}]

\* The session after doubleRatchet.Serialize: the method reads the fields of
\* d into a State and assigns to none of them.
AfterSerialize(d) == d

\* Deserialize that leaves the skipped keys out.
MutRestoreNothing(m, sks, i) == m

\* The loop of Deserialize over state.SkippedKeys.
RECURSIVE RestoreSkipped(_, _, _)
RestoreSkipped(m, sks, i) ==
    IF i > Len(sks) THEN m
    ELSE RestoreSkipped(MapPut(m, HeaderKey(sks[i].Header), sks[i].Key),
                        sks, i + 1)

\* Deserialize(data).
Deserialize(state) ==
    IF ~ValidPrivateKey(state.LocalPri) \/ ~ValidPublicKey(state.RemotePub)
    THEN [err |-> ErrInvalidKey, d |-> New(0, PublicKey(0), NilSalt)]
    ELSE [err |-> NoErr,
          d |-> [localPrivateKey |-> state.LocalPri[2],
                 remotePublicKey |-> state.RemotePub,
                 rootKey |-> state.RootKey,
                 sendChainKey |-> state.SendChainKey,
                 recvChainKey |-> state.RecvChainKey,
                 sendN |-> state.SendN, recvN |-> state.RecvN,
                 prevN |-> state.PrevN,
                 skippedMessageKeys |->
                     RestoreSkipped({}, state.SkippedKeys, 1)]]

----------------------------------------------------------------------------
(* The state machine: two peers, their calls, and the deliveries.          *)

\* The private key that the next refresh draws: one not used before.
NewPri == 3 + refreshes

NoTrack == [delivered |-> {}, accepted |-> {}, inOrder |-> TRUE, once |-> TRUE]

NoCall == [op |-> "New", party |-> "alice", err |-> NoErr, idx |-> 0,
           ad |-> "none", plaintext |-> "none", ratchet |-> FALSE]

\* The goroutines that call alice's session, and a goroutine between calls.
Goroutine == {"g1", "g2"}

NoLoc == [mk |-> "none", header |-> "none", state |-> "none",
          result |-> [err |-> "pending"]]

NoGoCall == [op |-> "none", pt |-> "none", ad |-> "none", msg |-> "none",
             newPri |-> 0]

Idle == [pc |-> "idle", call |-> NoGoCall, slot |-> 0, loc |-> NoLoc]

\* setup() of the tests: two key pairs, each session from its own private key
\* and the other's public key, nil salt.  alice holds the lesser public key;
\* the calls below are the same for both parties, so the other case is this
\* one with the names exchanged.
Init ==
    /\ sess = [p \in Party |->
                 IF p = "alice" THEN New(1, PublicKey(2), NilSalt)
                                ELSE New(2, PublicKey(1), NilSalt)]
    /\ sent = [p \in Party |-> << >>]
    /\ saved = {}
    /\ refreshes = 0
    /\ rotations = {}
    /\ track = [p \in Party |-> NoTrack]
    /\ last = NoCall
    /\ mu = "none"
    /\ gor = [t \in Goroutine |-> Idle]
    /\ acquired = << >>
    /\ fuzzed = 0

\* p calls Send(plaintext, ad); max bounds the Send calls of a run.
SendCall(p, max) ==
    /\ Len(sent["alice"]) + Len(sent["bob"]) < max
    /\ \E in \in Inputs :
          LET r == Send(sess[p], in[1], in[2])
          IN  /\ sess' = [sess EXCEPT ![p] = r.d]
              /\ sent' = [sent EXCEPT ![p] =
                            Append(@, [msg |-> r.msg, pt |-> in[1], ad |-> in[2]])]
              /\ last' = [NoCall EXCEPT !.op = "Send", !.party = p,
                                        !.err = r.err, !.idx = Len(sent[p]) + 1,
                                        !.ad = in[2]]
    /\ saved' = {}
    /\ UNCHANGED <<refreshes, rotations, track, concVars, fuzzed>>

\* What a delivery of the peer's i-th output with associated data ad adds to
\* the record of p's deliveries.
Tracked(p, i, ad, err) ==
    LET t == track[p]
        honest == ad = sent[Peer(p)][i].ad
    IN  [delivered |-> t.delivered \cup {i},
         accepted |-> IF err = NoErr THEN t.accepted \cup {i} ELSE t.accepted,
         inOrder |-> t.inOrder /\ honest /\ i = Cardinality(t.delivered) + 1
                     /\ t.delivered = 1..(i - 1),
         once |-> t.once /\ honest /\ i \notin t.delivered]

\* The i-th output of the peer's Send reaches p, which calls Receive(msg, ad),
\* with the associated data of the Send or with any of ads.
ReceiveCall(p, ads) ==
    /\ \E i \in DOMAIN sent[Peer(p)] :
       \E ad \in {sent[Peer(p)][i].ad} \cup ads :
          LET msg == sent[Peer(p)][i].msg
              r == Receive(sess[p], msg, ad, NewPri)
          IN  /\ NeedsRefresh(sess[p], msg, ad) => refreshes < MaxRefresh
              /\ sess' = [sess EXCEPT ![p] = r.d]
              /\ refreshes' = IF r.ratchet /\ r.err # ErrInvalidKey
                              THEN refreshes + 1 ELSE refreshes
              /\ track' = [track EXCEPT ![p] = Tracked(p, i, ad, r.err)]
              /\ last' = [op |-> "Receive", party |-> p, err |-> r.err,
                          idx |-> i, ad |-> ad, plaintext |-> r.plaintext,
                          ratchet |-> r.ratchet]
    /\ saved' = {}
    /\ UNCHANGED <<sent, rotations, concVars, fuzzed>>

\* The peer's outputs reach p in the order of the Sends, each once: Receive is
\* called with the first output not delivered yet.
ReceiveNextCall(p) ==
    /\ ReceiveCall(p, {})
    /\ last'.idx = Cardinality(track[p].delivered) + 1

\* p calls Serialize.
SerializeCall(p) ==
    /\ \E order \in Orderings(sess[p].skippedMessageKeys) :
          saved' = {[party |-> p, of |-> sess[p],
                     data |-> Serialize(sess[p], order)]}
    /\ sess' = [sess EXCEPT ![p] = AfterSerialize(sess[p])]
    /\ last' = [NoCall EXCEPT !.op = "Serialize", !.party = p]
    /\ UNCHANGED <<sent, refreshes, rotations, track, concVars, fuzzed>>

\* The owner of p replaces it by Deserialize of the data just serialized, as
\* TestSerialization does.
DeserializeCall(p) ==
    /\ \E s \in saved :
          /\ s.party = p
          /\ LET r == Deserialize(s.data)
             IN  /\ r.err = NoErr
                 /\ sess' = [sess EXCEPT ![p] = r.d]
                 /\ last' = [NoCall EXCEPT !.op = "Deserialize", !.party = p,
                                           !.err = r.err]
    /\ saved' = {}
    /\ UNCHANGED <<sent, refreshes, rotations, track, concVars, fuzzed>>

\* p rotates its key pair locally, as TestDiffieHellmanRatchetStep does.
RotateCall(p) ==
    /\ refreshes < MaxRefresh
    /\ sess' = [sess EXCEPT ![p] = Rotation(sess[p], NewPri)]
    /\ refreshes' = refreshes + 1
    /\ rotations' = rotations \cup
          {[by |-> p,
            old |-> PublicKey(sess[p].localPrivateKey),
            new |-> PublicKey(NewPri),
            quiet |-> \A q \in Party :
                         track[q].accepted = DOMAIN sent[Peer(q)]]}
    /\ last' = [NoCall EXCEPT !.op = "Rotate", !.party = p]
    /\ saved' = {}
    /\ UNCHANGED <<sent, track, concVars, fuzzed>>

\* Bytes that are not the encoding of a point of the curve, and bytes that
\* no Encrypt has produced.
InvalidKeyBytes == <<"garbage", 0>>

GarbageCiphertext ==
    [key |-> [kind |-> "garbage", hist |-> << >>, info |-> "none", n |-> 0],
     pt |-> "none", ad |-> "none"]

\* The messages that differ from the output m of a Send of the peer of p in
\* the header: in its DH (not a key, or p's own public key as in
\* FuzzReceiveWithMalformedInput), in its N, or in its PN; and m with its
\* ciphertext replaced.
Malformed(p, m) ==
    ({[m EXCEPT !.Header = [DH |-> dh, N |-> n, PN |-> pn]] :
        dh \in {m.Header.DH, InvalidKeyBytes,
                PublicKey(sess[p].localPrivateKey)},
        n \in 0..MaxFuzzN, pn \in 0..MaxFuzzN} \ {m})
    \cup {[m EXCEPT !.Ciphertext = GarbageCiphertext]}

\* An invalid delivery to p: Receive is called with a malformed copy of the
\* peer's i-th output, or with that output and other associated data.
FuzzCall(p) ==
    /\ fuzzed < MaxFuzz
    /\ fuzzed' = fuzzed + 1
    /\ \E i \in DOMAIN sent[Peer(p)] :
       \E msg \in Malformed(p, sent[Peer(p)][i].msg)
                   \cup {sent[Peer(p)][i].msg} :
       \E ad \in IF msg = sent[Peer(p)][i].msg
                 THEN ADs ELSE {sent[Peer(p)][i].ad} :
          LET r == Receive(sess[p], msg, ad, NewPri)
          IN  /\ msg = sent[Peer(p)][i].msg => ad # sent[Peer(p)][i].ad
              /\ NeedsRefresh(sess[p], msg, ad) => refreshes < MaxRefresh
              /\ sess' = [sess EXCEPT ![p] = r.d]
              /\ refreshes' = IF r.ratchet /\ r.err # ErrInvalidKey
                              THEN refreshes + 1 ELSE refreshes
              /\ track' = [track EXCEPT
                              ![p].once = @ /\ r.err # NoErr,
                              ![p].inOrder = @ /\ r.err # NoErr]
              /\ last' = [op |-> "Fuzz", party |-> p, err |-> r.err,
                          idx |-> i, ad |-> ad, plaintext |-> r.plaintext,
                          ratchet |-> r.ratchet, msg |-> msg]
    /\ saved' = {}
    /\ UNCHANGED <<sent, rotations, concVars>>

\* The i-th output of p's own Send comes back to p, which calls Receive on
\* it with the associated data of the Send.
ReflectCall(p) ==
    /\ \E i \in DOMAIN sent[p] :
          LET msg == sent[p][i].msg
              ad == sent[p][i].ad
              r == Receive(sess[p], msg, ad, NewPri)
          IN  /\ NeedsRefresh(sess[p], msg, ad) => refreshes < MaxRefresh
              /\ sess' = [sess EXCEPT ![p] = r.d]
              /\ refreshes' = IF r.ratchet /\ r.err # ErrInvalidKey
                              THEN refreshes + 1 ELSE refreshes
              /\ last' = [op |-> "Reflect", party |-> p, err |-> r.err,
                          idx |-> i, ad |-> ad, plaintext |-> r.plaintext,
                          ratchet |-> r.ratchet]
    /\ saved' = {}
    /\ UNCHANGED <<sent, rotations, track, concVars, fuzzed>>

\* ReceiveCall(p, {}) and RotateCall(p) of a run in which up to max key pairs
\* are drawn: any output of the peer reaches p, any number of times; p
\* rotates its key pair.
ReplayReceiveCall(p, max) ==
    /\ \E i \in DOMAIN sent[Peer(p)] :
          LET msg == sent[Peer(p)][i].msg
              ad == sent[Peer(p)][i].ad
              r == Receive(sess[p], msg, ad, NewPri)
          IN  /\ NeedsRefresh(sess[p], msg, ad) => refreshes < max
              /\ sess' = [sess EXCEPT ![p] = r.d]
              /\ refreshes' = IF r.ratchet /\ r.err # ErrInvalidKey
                              THEN refreshes + 1 ELSE refreshes
              /\ track' = [track EXCEPT ![p] = Tracked(p, i, ad, r.err)]
              /\ last' = [op |-> "Receive", party |-> p, err |-> r.err,
                          idx |-> i, ad |-> ad, plaintext |-> r.plaintext,
                          ratchet |-> r.ratchet]
    /\ saved' = {}
    /\ UNCHANGED <<sent, rotations, concVars, fuzzed>>

ReplayRotateCall(p, max) ==
    /\ refreshes < max
    /\ sess' = [sess EXCEPT ![p] = Rotation(sess[p], NewPri)]
    /\ refreshes' = refreshes + 1
    /\ rotations' = rotations \cup
          {[by |-> p,
            old |-> PublicKey(sess[p].localPrivateKey),
            new |-> PublicKey(NewPri),
            quiet |-> \A q \in Party :
                         track[q].accepted = DOMAIN sent[Peer(q)]]}
    /\ last' = [NoCall EXCEPT !.op = "Rotate", !.party = p]
    /\ saved' = {}
    /\ UNCHANGED <<sent, track, concVars, fuzzed>>

----------------------------------------------------------------------------
(* Goroutines on one session: alice's.  Each public method is Lock, its    *)
(* reads and writes of the struct one after the other, and the deferred    *)
(* Unlock.                                                                 *)

Shared == "alice"

\* The calls a goroutine can make: Send of an input, Receive of an output of
\* the peer with its associated data, Serialize.
GoCalls ==
    {[NoGoCall EXCEPT !.op = "Send", !.pt = in[1], !.ad = in[2]] :
        in \in Inputs}
    \cup {[NoGoCall EXCEPT !.op = "Receive", !.ad = sent[Peer(Shared)][i].ad,
                           !.msg = sent[Peer(Shared)][i].msg] :
            i \in DOMAIN sent[Peer(Shared)]}
    \cup {[NoGoCall EXCEPT !.op = "Serialize"]}

\* The first statement after d.Lock() of each method.
FirstStep(op) ==
    CASE op = "Send" -> "send_derive"
      [] op = "Receive" -> "recv_try"
      [] op = "Serialize" -> "ser_fields"

\* A mutex that lets every caller in.
MutLockNoExclusion(m) == TRUE

\* sync.Mutex.Lock returns only when no goroutine holds the mutex.
CanLock(m) == m = "none"

\* Goroutine t is between d.Lock() and the deferred d.Unlock().
InCall(t) == gor[t].pc \notin {"idle", "lock"}

\* t starts a call: it is about to execute d.Lock().
GoCall(t) ==
    /\ gor[t].pc = "idle"
    /\ Len(acquired) + Cardinality({u \in Goroutine : gor[u].pc = "lock"})
          < MaxCalls
    /\ \E c \in GoCalls :
          gor' = [gor EXCEPT ![t] = [Idle EXCEPT !.pc = "lock", !.call = c]]
    /\ UNCHANGED <<sess, sent, saved, refreshes, rotations, track, last,
                   mu, acquired, fuzzed>>

\* d.Lock() returns in t.
LockCall(t) ==
    LET c == [gor[t].call EXCEPT !.newPri = NewPri]
    IN  /\ gor[t].pc = "lock"
        /\ CanLock(mu)
        /\ (c.op = "Receive" /\ NeedsRefresh(sess[Shared], c.msg, c.ad))
              => refreshes < MaxRefresh
        /\ mu' = t
        /\ acquired' = Append(acquired, [call |-> c, returned |-> FALSE,
                                         result |-> NoLoc.result])
        /\ gor' = [gor EXCEPT ![t].pc = FirstStep(c.op), ![t].call = c,
                              ![t].slot = Len(acquired) + 1]
        /\ UNCHANGED <<sess, sent, saved, refreshes, rotations, track, last,
                       fuzzed>>

\* t takes one step of its call: the session becomes d, t goes to pc with
\* the locals loc.
GoStep(t, d, pc, loc) ==
    /\ sess' = [sess EXCEPT ![Shared] = d]
    /\ gor' = [gor EXCEPT ![t].pc = pc, ![t].loc = loc]
    /\ UNCHANGED <<sent, saved, rotations, track, last, mu, acquired, fuzzed>>

\* Send: nextCk, mk := DeriveCK(d.sendChainKey); d.sendChainKey = nextCk.
SendDerive(t) ==
    /\ gor[t].pc = "send_derive"
    /\ LET d == sess[Shared]
           k == DeriveCK(d.sendChainKey)
       IN  GoStep(t, [d EXCEPT !.sendChainKey = k.nextCk], "send_header",
                  [gor[t].loc EXCEPT !.mk = k.mk])
    /\ UNCHANGED refreshes

\* Send: header := Header{DH, N: d.sendN, PN: d.prevN}.
SendHeader(t) ==
    /\ gor[t].pc = "send_header"
    /\ LET d == sess[Shared]
       IN  GoStep(t, d, "send_inc",
                  [gor[t].loc EXCEPT !.header =
                      [DH |-> PublicKey(d.localPrivateKey),
                       N |-> d.sendN, PN |-> d.prevN]])
    /\ UNCHANGED refreshes

\* Send: d.sendN++.
SendInc(t) ==
    /\ gor[t].pc = "send_inc"
    /\ LET d == sess[Shared]
       IN  GoStep(t, [d EXCEPT !.sendN = (d.sendN + 1) % Uint32Mod],
                  "send_encrypt", gor[t].loc)
    /\ UNCHANGED refreshes

\* Send: crypto.Encrypt(mk, plaintext, ad) and the return.
SendEncrypt(t) ==
    /\ gor[t].pc = "send_encrypt"
    /\ LET c == gor[t].call
           loc == gor[t].loc
       IN  GoStep(t, sess[Shared], "unlock",
                  [loc EXCEPT !.result =
                      [err |-> NoErr,
                       msg |-> [Header |-> loc.header,
                                Ciphertext |-> Encrypt(loc.mk, c.pt, c.ad)]]])
    /\ UNCHANGED refreshes

\* Receive: d.trySkippedMessageKeys(msg.Header, msg.Ciphertext, ad).
ReceiveTry(t) ==
    /\ gor[t].pc = "recv_try"
    /\ LET c == gor[t].call
           r == trySkippedMessageKeys(sess[Shared], c.msg.Header,
                                      c.msg.Ciphertext, c.ad)
       IN  IF r.err = NoErr
           THEN GoStep(t, r.d, "unlock",
                       [gor[t].loc EXCEPT !.result =
                           [err |-> NoErr, plaintext |-> r.plaintext]])
           ELSE GoStep(t, r.d, "recv_dh", gor[t].loc)
    /\ UNCHANGED refreshes

\* Receive: the test of the header's DH, and under it skipMessageKeys to the
\* header's PN and dhRatchet.
ReceiveRatchet(t) ==
    /\ gor[t].pc = "recv_dh"
    /\ LET c == gor[t].call
           d == sess[Shared]
           fail(e) == [gor[t].loc EXCEPT !.result =
                          [err |-> e, plaintext |-> "none"]]
       IN  IF c.msg.Header.DH = d.remotePublicKey
           THEN GoStep(t, d, "recv_skip", gor[t].loc) /\ UNCHANGED refreshes
           ELSE LET s == skipMessageKeys(d, d.recvN, c.msg.Header.PN)
                    r == dhRatchet(s.d, c.msg.Header.DH, c.newPri)
                IN  IF s.err # NoErr
                    THEN GoStep(t, s.d, "unlock", fail(s.err))
                         /\ UNCHANGED refreshes
                    ELSE IF r.err # NoErr
                    THEN GoStep(t, r.d, "unlock", fail(r.err))
                         /\ UNCHANGED refreshes
                    ELSE GoStep(t, r.d, "recv_skip", gor[t].loc)
                         /\ refreshes' = refreshes + 1

\* Receive: d.skipMessageKeys(d.recvN, msg.Header.N).
ReceiveSkip(t) ==
    /\ gor[t].pc = "recv_skip"
    /\ LET c == gor[t].call
           d == sess[Shared]
           s == skipMessageKeys(d, d.recvN, c.msg.Header.N)
       IN  IF s.err # NoErr
           THEN GoStep(t, s.d, "unlock",
                       [gor[t].loc EXCEPT !.result =
                           [err |-> s.err, plaintext |-> "none"]])
           ELSE GoStep(t, s.d, "recv_derive", gor[t].loc)
    /\ UNCHANGED refreshes

\* Receive: nextCk, mk := DeriveCK(d.recvChainKey); d.recvChainKey = nextCk.
ReceiveDerive(t) ==
    /\ gor[t].pc = "recv_derive"
    /\ LET d == sess[Shared]
           k == DeriveCK(d.recvChainKey)
       IN  GoStep(t, [d EXCEPT !.recvChainKey = k.nextCk], "recv_inc",
                  [gor[t].loc EXCEPT !.mk = k.mk])
    /\ UNCHANGED refreshes

\* Receive: d.recvN++.
ReceiveInc(t) ==
    /\ gor[t].pc = "recv_inc"
    /\ LET d == sess[Shared]
       IN  GoStep(t, [d EXCEPT !.recvN = (d.recvN + 1) % Uint32Mod],
                  "recv_decrypt", gor[t].loc)
    /\ UNCHANGED refreshes

\* Receive: crypto.Decrypt(mk, msg.Ciphertext, ad) and the return.
ReceiveOpen(t) ==
    /\ gor[t].pc = "recv_decrypt"
    /\ LET c == gor[t].call
           r == Decrypt(gor[t].loc.mk, c.msg.Ciphertext, c.ad)
       IN  GoStep(t, sess[Shared], "unlock",
                  [gor[t].loc EXCEPT !.result =
                      [err |-> r.err, plaintext |-> r.plaintext]])
    /\ UNCHANGED refreshes

\* Serialize: the State literal, filled from the fields of the struct.
SerializeFields(t) ==
    /\ gor[t].pc = "ser_fields"
    /\ GoStep(t, sess[Shared], "ser_range",
              [gor[t].loc EXCEPT !.state = Serialize(sess[Shared], << >>)])
    /\ UNCHANGED refreshes

\* Serialize: the range over d.skippedMessageKeys, and json.Marshal.
SerializeRange(t) ==
    /\ gor[t].pc = "ser_range"
    /\ \E order \in Orderings(sess[Shared].skippedMessageKeys) :
          GoStep(t, sess[Shared], "unlock",
                 [gor[t].loc EXCEPT !.result =
                     [err |-> NoErr,
                      data |-> [gor[t].loc.state EXCEPT !.SkippedKeys =
                                  Serialize(sess[Shared], order).SkippedKeys]]])
    /\ UNCHANGED refreshes

\* A return that leaves the mutex held.
MutUnlockKeepsLock(t) ==
    /\ gor[t].pc = "unlock"
    /\ acquired' = [acquired EXCEPT ![gor[t].slot] =
                       [@ EXCEPT !.returned = TRUE,
                                 !.result = gor[t].loc.result]]
    /\ gor' = [gor EXCEPT ![t] = Idle]
    /\ UNCHANGED <<sess, sent, saved, refreshes, rotations, track, last,
                   mu, fuzzed>>

\* The deferred d.Unlock() runs and the call returns its result.
UnlockCall(t) ==
    /\ gor[t].pc = "unlock"
    /\ mu' = "none"
    /\ acquired' = [acquired EXCEPT ![gor[t].slot] =
                       [@ EXCEPT !.returned = TRUE,
                                 !.result = gor[t].loc.result]]
    /\ gor' = [gor EXCEPT ![t] = Idle]
    /\ UNCHANGED <<sess, sent, saved, refreshes, rotations, track, last,
                   fuzzed>>

----------------------------------------------------------------------------
(* The specifications.                                                      *)

\* Send and Receive on two honest peers: every output of a Send can reach the
\* peer any number of times and in any order, with its associated data.
Next ==
    \E p \in Party :
        \/ SendCall(p, MaxSends)
        \/ ReceiveCall(p, {})

Spec == Init /\ [][Next]_vars

\* The same, and Receive is called with any associated data.
NextAD ==
    \E p \in Party :
        \/ SendCall(p, MaxSends)
        \/ ReceiveCall(p, ADs)

SpecAD == Init /\ [][NextAD]_vars

\* Send, Receive with the associated data of the Send, Serialize, Deserialize.
NextSerialize ==
    \E p \in Party :
        \/ SendCall(p, MaxSends)
        \/ ReceiveCall(p, {})
        \/ SerializeCall(p)
        \/ DeserializeCall(p)

SpecSerialize == Init /\ [][NextSerialize]_vars

\* Send, Receive with the associated data of the Send, and the local
\* rotations of the tests.
NextRatchet ==
    \E p \in Party :
        \/ SendCall(p, MaxRatchetSends)
        \/ ReceiveCall(p, {})
        \/ RotateCall(p)

SpecRatchet == Init /\ [][NextRatchet]_vars

\* Goroutines calling Send, Receive and Serialize on alice's session, while
\* bob sends to alice and rotates its key pair.
NextConc ==
    \/ SendCall(Peer(Shared), MaxConcMsgs)
    \/ RotateCall(Peer(Shared))
    \/ \E t \in Goroutine :
          \/ GoCall(t)
          \/ LockCall(t)
          \/ SendDerive(t)
          \/ SendHeader(t)
          \/ SendInc(t)
          \/ SendEncrypt(t)
          \/ ReceiveTry(t)
          \/ ReceiveRatchet(t)
          \/ ReceiveSkip(t)
          \/ ReceiveDerive(t)
          \/ ReceiveInc(t)
          \/ ReceiveOpen(t)
          \/ SerializeFields(t)
          \/ SerializeRange(t)
          \/ UnlockCall(t)

SpecConc == Init /\ [][NextConc]_vars

\* The statements of a call between d.Lock() and its return.
GoSteps(t) ==
    \/ SendDerive(t)
    \/ SendHeader(t)
    \/ SendInc(t)
    \/ SendEncrypt(t)
    \/ ReceiveTry(t)
    \/ ReceiveRatchet(t)
    \/ ReceiveSkip(t)
    \/ ReceiveDerive(t)
    \/ ReceiveInc(t)
    \/ ReceiveOpen(t)
    \/ SerializeFields(t)
    \/ SerializeRange(t)
    \/ UnlockCall(t)

\* Goroutines calling Send, Receive and Serialize on alice's session while
\* bob sends to alice.  A goroutine that is in a call goes on running (no
\* statement of a method blocks), and sync.Mutex hands the lock to a waiter
\* that finds it free again and again (its starvation mode).
NextLive ==
    \/ SendCall(Peer(Shared), MaxConcMsgs)
    \/ \E t \in Goroutine :
          \/ GoCall(t)
          \/ LockCall(t)
          \/ GoSteps(t)

SpecLive ==
    /\ Init
    /\ [][NextLive]_vars
    /\ \A t \in Goroutine : WF_vars(GoSteps(t)) /\ SF_vars(LockCall(t))

\* Send, Receive with the associated data of the Send, and outputs that come
\* back to their sender.
NextReflect ==
    \E p \in Party :
        \/ SendCall(p, MaxReflectSends)
        \/ ReceiveCall(p, {})
        \/ ReflectCall(p)

SpecReflect == Init /\ [][NextReflect]_vars

\* alice sends and rotates its key pair; bob receives alice's outputs, any of
\* them any number of times.
NextReplay ==
    \/ SendCall("alice", MaxReplaySends)
    \/ ReplayRotateCall("alice", MaxReplayRefresh)
    \/ ReplayReceiveCall("bob", MaxReplayRefresh)

SpecReplay == Init /\ [][NextReplay]_vars

\* Send, Receive with the associated data of the Send, and invalid
\* deliveries.
NextFuzz ==
    \E p \in Party :
        \/ SendCall(p, MaxFuzzSends)
        \/ ReceiveCall(p, {})
        \/ FuzzCall(p)

SpecFuzz == Init /\ [][NextFuzz]_vars

\* alice sends, bob receives: one chain, longer than in the other runs.
NextLong ==
    \/ SendCall("alice", MaxLongSends)
    \/ ReceiveCall("bob", {})

SpecLong == Init /\ [][NextLong]_vars

\* alice sends until SendN has taken every value of its type, bob receives
\* in order.
NextWrap ==
    \/ SendCall("alice", MaxWrapSends)
    \/ ReceiveNextCall("bob")

SpecWrap == Init /\ [][NextWrap]_vars

----------------------------------------------------------------------------
(* The claims.                                                             *)

\* The call that last' describes is a Receive by p of the peer's i-th output.
LastParty == last.party

LastEntry == sent[Peer(last.party)][last.idx]

\* The Receive that last describes returned the plaintext of the Send.
LastDecrypted ==
    /\ last.err = NoErr
    /\ last.plaintext = LastEntry.pt

\* C1: when all that has reached a session so far is the peer's outputs, each
\* once, in the order of the Sends and with the associated data of the Send,
\* every Receive has succeeded and returned the plaintext handed to that Send;
\* this for both directions and any interleaving of the two parties' calls.
C1_InOrderRoundTrip ==
    (last.op = "Receive" /\ track[last.party].inOrder) => LastDecrypted

\* Both directions have been used, alice has received two messages in order.
C1_Witness ==
    /\ last.op = "Receive" /\ last.party = "alice" /\ last.err = NoErr
    /\ track["alice"].inOrder /\ track["bob"].inOrder
    /\ track["alice"].accepted = {1, 2}
    /\ track["bob"].accepted = {1, 2}
    /\ last.plaintext = "p2"

\* C2: when the peer has made at most MaxSkip Sends (indices 0..k, k < MaxSkip)
\* and its outputs reach the session each at most once, in any order, every
\* Receive succeeds and returns the plaintext of the message delivered.
C2_AnyOrderWithinChain ==
    (/\ last.op = "Receive"
     /\ track[last.party].once
     /\ Len(sent[Peer(last.party)]) <= MaxSkip) => LastDecrypted

\* The first of MaxSkip messages is decrypted after the last and the second.
C2_Witness ==
    /\ last.op = "Receive" /\ last.err = NoErr /\ last.idx = 1
    /\ track[last.party].once
    /\ Len(sent[Peer(last.party)]) = MaxSkip
    /\ track[last.party].accepted = {1, MaxSkip - 1, MaxSkip}
    /\ sess[last.party].recvN = MaxSkip

\* C3: no output of the peer's Send is decrypted twice by a session: a Receive
\* succeeds only on a message the session has not decrypted before.
C3_NoDuplicateAccepted ==
    [][(last'.op = "Receive" /\ last'.err = NoErr)
          => last'.idx \notin track[last'.party].accepted]_vars

\* A message first decrypted with a stored skipped key is delivered again and
\* refused.
C3_Witness ==
    /\ last.op = "Receive" /\ last.err # NoErr
    /\ last.ad = LastEntry.ad
    /\ last.idx \in track[last.party].accepted
    /\ last.idx < sess[last.party].recvN
    /\ \E j \in track[last.party].accepted : j > last.idx

\* The header of the message that the Receive described by last' was given.
NextHeader == sent[Peer(last'.party)][last'.idx].msg.Header

\* The Receive described by last' got a header of the receiving chain that was
\* current when it was called.
NextOnSameChain ==
    /\ last'.op = "Receive"
    /\ NextHeader.DH = sess[last'.party].remotePublicKey

C8_AssociatedDataBinding ==
    (last.op = "Receive" /\ last.ad # LastEntry.ad)
        => (last.err # NoErr /\ last.plaintext = "none")

\* A message whose key is stored as a skipped key is refused with the wrong
\* associated data, and one on the chain path has been refused as well.
C8_Witness ==
    /\ last.op = "Receive" /\ last.ad # LastEntry.ad /\ last.err # NoErr
    /\ \E i \in track[last.party].delivered \ track[last.party].accepted :
          i > last.idx
    /\ \E e \in sess[last.party].skippedMessageKeys :
          e.id = HeaderKey(LastEntry.msg.Header)

\* C9: Deserialize of the output of Serialize succeeds and gives a session
\* equal to the serialized one in every field, the skipped keys included,
\* whatever the order in which Serialize listed them.
C9_SerializeRoundTrip ==
    \A s \in saved :
        /\ Deserialize(s.data).err = NoErr
        /\ Deserialize(s.data).d = s.of

\* A session with two skipped keys and messages sent has been serialized.
C9_Witness ==
    \E s \in saved :
        /\ Cardinality(s.of.skippedMessageKeys) = 2
        /\ s.of.sendN > 0
        /\ s.of.recvN > 0

\* Every delivery so far, to either party, has been the next output of the
\* peer with its associated data.
AllInOrder == \A p \in Party : track[p].inOrder

\* C4: when one party rotates its key pair locally at a moment when every
\* message sent so far has been delivered, and all deliveries are in order,
\* every later Receive succeeds with the plaintext of the Send: that of the
\* rotating party's message on the new chain by the peer, and those of the
\* peer's later messages by the rotating party.
C4_ContinuesAfterRotation ==
    (/\ last.op = "Receive"
     /\ AllInOrder
     /\ Cardinality(rotations) = 1
     /\ \A r \in rotations : r.quiet) => LastDecrypted

\* The Receive that last describes got a message that the rotating party r.by
\* sent before its rotation r, for the first time, after the receiver had
\* already decrypted a message of the chain that r started; every delivery to
\* the receiver so far came once and with the associated data of its Send.
DelayedAcross(r) ==
    /\ last.op = "Receive"
    /\ last.party = Peer(r.by)
    /\ track[last.party].once
    /\ Len(sent[r.by]) <= MaxSkip
    /\ LastEntry.msg.Header.DH = r.old
    /\ \E j \in track[last.party].accepted :
          sent[r.by][j].msg.Header.DH = r.new

\* C5: when a party has sent messages on one chain, rotated, and sent on the
\* new chain, and the peer has decrypted a message of the new chain first,
\* every outstanding message of the old chain that is delivered afterwards is
\* decrypted to the plaintext of its Send (fewer than MaxSkip messages being
\* pending on each chain).
C5_DelayedAcrossRatchet ==
    \A r \in rotations : DelayedAcross(r) => LastDecrypted

\* Two messages of the old chain are decrypted after one of the new chain, the
\* later of the two first.
C5_Witness ==
    \E r \in rotations :
        /\ DelayedAcross(r)
        /\ last.err = NoErr
        /\ last.idx = 1
        /\ track[last.party].accepted = {1, 2, 3}
        /\ sent[r.by][2].msg.Header.DH = r.old
        /\ sent[r.by][3].msg.Header.DH = r.new

\* What the call c does to a session d when nothing else runs.
AfterCall(d, c) ==
    CASE c.op = "Send" -> Send(d, c.pt, c.ad).d
      [] c.op = "Receive" -> Receive(d, c.msg, c.ad, c.newPri).d
      [] c.op = "Serialize" -> d

\* res is what the call c returns on a session d when nothing else runs.
Returns(d, c, res) ==
    CASE c.op = "Send" ->
            res = [err |-> Send(d, c.pt, c.ad).err,
                   msg |-> Send(d, c.pt, c.ad).msg]
      [] c.op = "Receive" ->
            res = [err |-> Receive(d, c.msg, c.ad, c.newPri).err,
                   plaintext |-> Receive(d, c.msg, c.ad, c.newPri).plaintext]
      [] c.op = "Serialize" ->
            \E order \in Orderings(d.skippedMessageKeys) :
                res = [err |-> NoErr, data |-> Serialize(d, order)]

\* alice's session after the first k calls of acquired, made one at a time.
RECURSIVE SeqState(_)
SeqState(k) ==
    IF k = 0 THEN New(1, PublicKey(2), NilSalt)
    ELSE AfterCall(SeqState(k - 1), acquired[k].call)

\* C10: at most one goroutine is between Lock and Unlock of the session; every
\* call that has returned returned what it returns when the calls are made
\* one at a time in the order in which they got the lock; and whenever no call
\* is in progress the session is the one that order of calls produces.
C10_Linearizable ==
    /\ \A t, u \in Goroutine : (InCall(t) /\ InCall(u)) => t = u
    /\ \A k \in DOMAIN acquired :
          acquired[k].returned
             => Returns(SeqState(k - 1), acquired[k].call, acquired[k].result)
    /\ (\A t \in Goroutine : ~InCall(t))
          => sess[Shared] = SeqState(Len(acquired))

\* Three calls have returned, a Receive that decrypted among them and a Send
\* as well, all of them changing the session; one goroutine made its call
\* while the other was waiting for the lock.
C10_Witness ==
    /\ Len(acquired) = MaxCalls
    /\ \A k \in DOMAIN acquired : acquired[k].returned
    /\ \E k \in DOMAIN acquired :
          /\ acquired[k].call.op = "Receive"
          /\ acquired[k].result.err = NoErr
    /\ \E k \in DOMAIN acquired : acquired[k].call.op = "Send"
    /\ sess[Shared].recvN > 0
    /\ sess[Shared].sendN > 0
    /\ sess[Shared] = SeqState(MaxCalls)

\* The Receive calls among the first k calls of acquired.
ReceivesUpTo(k) ==
    {j \in 1..k : acquired[j].call.op = "Receive"}

\* The Receive calls made on alice's session so far got bob's outputs in the
\* order of bob's Sends, each once, with the associated data of the Send.
ReceivedInOrder ==
    \A k \in DOMAIN acquired :
        acquired[k].call.op = "Receive" =>
            LET j == Cardinality(ReceivesUpTo(k))
            IN  /\ j \in DOMAIN sent[Peer(Shared)]
                /\ acquired[k].call.msg = sent[Peer(Shared)][j].msg
                /\ acquired[k].call.ad = sent[Peer(Shared)][j].ad

\* C11: when goroutines call Send and Receive on alice's session at the same
\* time, the Receives getting bob's messages in the order bob sent them,
\* every Send and every Receive that has returned has succeeded, whatever the
\* interleaving.
C11_ConcurrentSendReceiveSucceed ==
    (rotations = {} /\ ReceivedInOrder) =>
        \A k \in DOMAIN acquired :
            (acquired[k].returned /\ acquired[k].call.op # "Serialize")
                => acquired[k].result.err = NoErr

\* Two Receives and a Send between them have returned, and succeeded.
C11_Witness ==
    /\ rotations = {}
    /\ ReceivedInOrder
    /\ Len(acquired) = 3
    /\ \A k \in DOMAIN acquired : acquired[k].returned
    /\ acquired[1].call.op = "Receive"
    /\ acquired[2].call.op = "Send"
    /\ acquired[3].call.op = "Receive"
    /\ acquired[3].result.err = NoErr
    /\ sess[Shared].recvN = 2

\* The chain keys that can be computed from what a session d holds (and what
\* Serialize writes out): the two chain keys themselves, the chain keys that
\* init derives by HKDF from the DH output of the local private key and the
\* remote public key (the salt being nil), and the chain key that RootKDF
\* gives from the root key and that DH output.
DerivableChainKeys(d) ==
    LET dhOut == ECDH(d.localPrivateKey, d.remotePublicKey)
    IN  {d.sendChainKey, d.recvChainKey, DeriveRK(d.rootKey, dhOut).ck}
        \cup {DeriveHKDF(dhOut, NilSalt, info) :
                info \in {"DoubleRatchet-Chain-1", "DoubleRatchet-Chain-2"}}

\* The message key mk can be computed from what d holds: it is a stored
\* skipped key, or ChainKDF leads to it from a derivable chain key (DeriveCK
\* goes forward only: from the chain key of index n to the message keys of
\* the indices n and above).
Derivable(d, mk) ==
    \/ \E e \in d.skippedMessageKeys : e.mk = mk
    \/ \E ck \in DerivableChainKeys(d) :
          /\ ck.hist = mk.hist
          /\ ck.info = mk.info
          /\ ck.n <= mk.n

\* C12: in every reachable state, the message key of no message that a
\* session has sent or has decrypted can be derived from what the session
\* holds.
C12_ForwardSecrecy ==
    \A p \in Party :
        /\ \A i \in DOMAIN sent[p] :
              ~Derivable(sess[p], sent[p][i].msg.Ciphertext.key)
        /\ \A i \in track[p].accepted :
              ~Derivable(sess[p], sent[Peer(p)][i].msg.Ciphertext.key)

\* C13: after any number of invalid deliveries to a session, each of which
\* made Receive return an error, a message of the peer that the session has
\* not received yet is decrypted when it is delivered with the associated
\* data of its Send (the peer having sent at most MaxSkip messages, the valid
\* deliveries coming each once).
C13_ValidAfterInvalid ==
    (/\ last.op = "Receive"
     /\ track[last.party].once
     /\ Len(sent[Peer(last.party)]) <= MaxSkip) => LastDecrypted

\* The session that the call described by last' was made on, before the call
\* and after it.
CalledBefore == sess[last'.party]

CalledAfter == sess'[last'.party]

\* C14: a Receive whose header DH is not a public key of the curve, or whose
\* ciphertext is arbitrary bytes, returns an error and leaves every field of
\* the session as it was.
C14_MalformedLeavesState ==
    [][(/\ last'.op = "Fuzz"
        /\ \/ last'.msg.Header.DH = InvalidKeyBytes
           \/ last'.msg.Ciphertext = GarbageCiphertext)
          => (last'.err # NoErr /\ CalledAfter = CalledBefore)]_vars

\* The message handed to the Receive that last' describes.
CalledMsg ==
    IF last'.op = "Fuzz" THEN last'.msg
    ELSE sent[Peer(last'.party)][last'.idx].msg

\* C15: a Receive that fails with "too many skipped messages" or with
\* "received message out of order (old)", the header being on the current
\* chain or announcing a new one, has attempted no decryption (it found no
\* stored key for the header) and leaves every field of the session as it
\* was.
C15_SkipFailuresLeaveState ==
    [][(/\ last'.op \in {"Receive", "Fuzz"}
        /\ last'.err \in {ErrTooManySkipped, ErrOutOfOrder})
          => /\ ~MapHas(CalledBefore.skippedMessageKeys,
                        HeaderKey(CalledMsg.Header))
             /\ CalledAfter = CalledBefore]_vars

\* The number of entries that the call described by last' has added to the
\* skipped-key store.
StoreGrowth ==
    Cardinality(CalledAfter.skippedMessageKeys)
        - Cardinality(CalledBefore.skippedMessageKeys)

SkippedOfChain(d, dh) == {e \in d.skippedMessageKeys : e.id.dh = dh}

\* C17: in every reachable state the skipped-key store of a session holds at
\* most MaxSkip entries for any one receiving chain.
C17_AtMostMaxSkipPerChainStored ==
    \A p \in Party :
        \A e \in sess[p].skippedMessageKeys :
            Cardinality(SkippedOfChain(sess[p], e.id.dh)) <= MaxSkip

\* The call described by last' made a DH ratchet step on the session: a
\* Receive that ran dhRatchet to its end, or a local rotation.
RatchetStepTaken ==
    \/ last'.op = "Rotate"
    \/ /\ last'.op = "Receive"
       /\ last'.ratchet
       /\ CalledAfter.localPrivateKey # CalledBefore.localPrivateKey

\* C18: the PN of every header that Send emits is the number of messages the
\* session produced in its previous sending chain.  Send copies PrevN into
\* the header, and PrevN starts at 0, so this is: every ratchet step leaves in
\* PrevN the number of messages sent in the sending chain that it ends, and
\* nothing else changes PrevN.
C18_PNIsPreviousChainLength ==
    [][/\ last'.op = "Send" =>
             /\ sent'[last'.party][last'.idx].msg.Header.PN
                   = CalledBefore.prevN
             /\ CalledAfter.prevN = CalledBefore.prevN
       /\ RatchetStepTaken => CalledAfter.prevN = CalledBefore.sendN
       /\ (last'.op = "Receive" /\ ~RatchetStepTaken)
             => CalledAfter.prevN = CalledBefore.prevN]_vars

\* C19: a Send made when SendN has the largest value of its type returns an
\* error and does not take SendN back to 0, and likewise a Receive of the next
\* message of the chain when RecvN has that value.
C19_CounterOverflowIsError ==
    [][/\ (last'.op = "Send" /\ CalledBefore.sendN = Uint32Mod - 1)
             => /\ last'.err # NoErr
                /\ CalledAfter.sendN = CalledBefore.sendN
       /\ (/\ last'.op = "Receive"
           /\ CalledBefore.recvN = Uint32Mod - 1
           /\ CalledMsg.Header.N = CalledBefore.recvN)
             => /\ last'.err # NoErr
                /\ CalledAfter.recvN = CalledBefore.recvN]_vars

\* C20: a Serialize call leaves every field of the session, and the peer's
\* session, as they were; so the calls that follow it find the state they
\* would have found without it and return the same results.
C20_SerializeReadOnly ==
    [][last'.op = "Serialize" => sess' = sess]_vars

\* A session that holds skipped keys and has sent and received has just been
\* serialized, and is what it was.
C20_Witness ==
    /\ last.op = "Serialize"
    /\ \E s \in saved : s.party = last.party /\ s.of = sess[last.party]
    /\ sess[last.party].skippedMessageKeys # {}
    /\ sess[last.party].sendN > 0
    /\ sess[last.party].recvN > 1

----------------------------------------------------------------------------
(* New, Send and Receive, field by field.                                  *)

\* The private scalars and the salts that the sessions below are made from.
KeyScalars == 1..3

Salts == {NilSalt, <<"salt">>}

\* C21: a session that New has just returned has SendN = 0, RecvN = 0,
\* PrevN = 0 and an empty skipped-key store; of two sessions made by two peers
\* with distinct public keys, each from its own private key, the other's
\* public key and the same salt, the sending chain key of each is the
\* receiving chain key of the other, and the sending chain key of a session
\* is not its own receiving chain key.  This holds of the sessions of setup()
\* before any call.
C21_NewPostState ==
    /\ \A a \in KeyScalars, b \in KeyScalars, salt \in Salts :
          LET x == New(a, PublicKey(b), salt)
              y == New(b, PublicKey(a), salt)
          IN  /\ x.sendN = 0 /\ x.recvN = 0 /\ x.prevN = 0
              /\ x.skippedMessageKeys = {}
              /\ a # b => /\ x.sendChainKey = y.recvChainKey
                          /\ x.recvChainKey = y.sendChainKey
                          /\ x.sendChainKey # x.recvChainKey
    /\ last.op = "New" =>
          \A p \in Party :
              /\ sess[p].sendN = 0 /\ sess[p].recvN = 0 /\ sess[p].prevN = 0
              /\ sess[p].skippedMessageKeys = {}
              /\ sess[p].sendChainKey = sess[Peer(p)].recvChainKey
              /\ sess[p].sendChainKey # sess[p].recvChainKey

\* The two sessions of setup(), just made: the counters are 0 and the chain
\* keys are crossed.
C21_Witness ==
    /\ last.op = "New"
    /\ sess["alice"] = New(1, PublicKey(2), NilSalt)
    /\ sess["bob"] = New(2, PublicKey(1), NilSalt)
    /\ sess["alice"].sendChainKey = sess["bob"].recvChainKey
    /\ sess["bob"].sendChainKey = sess["alice"].recvChainKey
    /\ sess["alice"].sendN = 0

\* The output of the Send that last' describes.
SentMsg == sent'[last'.party][last'.idx].msg

\* The outputs of p's Sends before the idx-th that carry the public key dh:
\* the earlier messages of the same sending chain.
EarlierOfChain(p, idx, dh) ==
    {i \in 1..(idx - 1) : sent'[p][i].msg.Header.DH = dh}

\* C22: every Send succeeds with a header that carries the session's current
\* public key as DH, the value SendN had before the call as N and PrevN as
\* PN; the call adds 1 to SendN (a uint32), replaces the sending chain key by
\* the next one of one ChainKDF step and encrypts under the message key of
\* that step; nothing else changes.  So the k-th Send on a sending chain
\* carries N = k - 1, for the chains of SpecRatchet, which end before the
\* counter's range does (C19 is about the end of the range).
C22_SendNumbersConsecutively ==
    [][last'.op = "Send" =>
          LET k == DeriveCK(CalledBefore.sendChainKey)
          IN  /\ last'.err = NoErr
              /\ SentMsg.Header
                    = [DH |-> PublicKey(CalledBefore.localPrivateKey),
                       N |-> CalledBefore.sendN,
                       PN |-> CalledBefore.prevN]
              /\ SentMsg.Ciphertext.key = k.mk
              /\ CalledAfter
                    = [CalledBefore EXCEPT
                          !.sendN = (CalledBefore.sendN + 1) % Uint32Mod,
                          !.sendChainKey = k.nextCk]
              /\ SentMsg.Header.N
                    = Cardinality(EarlierOfChain(last'.party, last'.idx,
                                                 SentMsg.Header.DH))]_vars

\* A session that has ratcheted sends the second message of its new chain:
\* the header carries N = 1 and a PN that is not 0.
C22_Witness ==
    /\ last.op = "Send"
    /\ sent[last.party][last.idx].msg.Header.N = 1
    /\ sent[last.party][last.idx].msg.Header.PN > 0
    /\ sent[last.party][last.idx].msg.Header.DH # PublicKey(1)
    /\ sent[last.party][last.idx].msg.Header.DH # PublicKey(2)
    /\ sess[last.party].sendN = 2

\* The Send calls on alice's session that have returned.
ReturnedSends ==
    {k \in DOMAIN acquired :
        acquired[k].call.op = "Send" /\ acquired[k].returned}

\* C23: Sends made by goroutines on one session at the same time return
\* pairwise distinct (DH, N) and encrypt under pairwise distinct message
\* keys; when the calls made so far are m Sends on the chain that had
\* SendN = 0 and all have returned, their N are exactly 0..m-1.
C23_ConcurrentSendsDistinct ==
    /\ \A k, l \in ReturnedSends :
          k # l =>
             LET a == acquired[k].result.msg
                 b == acquired[l].result.msg
             IN  /\ <<a.Header.DH, a.Header.N>> # <<b.Header.DH, b.Header.N>>
                 /\ a.Ciphertext.key # b.Ciphertext.key
    /\ (ReturnedSends = DOMAIN acquired)
          => {acquired[k].result.msg.Header.N : k \in ReturnedSends}
                = 0..(Len(acquired) - 1)

\* Three Sends have returned, with N = 0, 1 and 2.
C23_Witness ==
    /\ Len(acquired) = MaxCalls
    /\ ReturnedSends = DOMAIN acquired
    /\ \A k \in DOMAIN acquired : acquired[k].result.msg.Header.N = k - 1
    /\ acquired[1].result.msg.Ciphertext.key
          # acquired[2].result.msg.Ciphertext.key
    /\ sess[Shared].sendN = MaxCalls

\* The chain key that k ChainKDF steps make of ck.
RECURSIVE ChainAdvance(_, _)
ChainAdvance(ck, k) ==
    IF k = 0 THEN ck ELSE ChainAdvance(DeriveCK(ck).nextCk, k - 1)

\* The entries of the store m as (DH, N, message key), the PN of the
\* headerID left out.
Keyed(m) == {[dh |-> e.id.dh, n |-> e.id.n, mk |-> e.mk] : e \in m}

\* C24: a Receive that succeeds on a header whose DH is the stored remote
\* public key and whose N is RecvN or more (less than RecvN + MaxSkip) leaves
\* RecvN = N + 1 and has added to the store exactly the N - RecvN keys of the
\* indices RecvN .. N-1, under the current remote DH, each the chain's key for
\* its index; the receiving chain key has taken N - RecvN + 1 steps and the
\* message was decrypted under the key of index N.
C24_SameChainAdvance ==
    [][(/\ last'.op = "Receive"
        /\ last'.err = NoErr
        /\ CalledMsg.Header.DH = CalledBefore.remotePublicKey
        /\ CalledMsg.Header.N >= CalledBefore.recvN)
          => LET b == CalledBefore
                 n == CalledMsg.Header.N
             IN  /\ n - b.recvN < MaxSkip
                 /\ CalledAfter.recvN = n + 1
                 /\ Keyed(CalledAfter.skippedMessageKeys)
                       \cap Keyed(b.skippedMessageKeys) = Keyed(b.skippedMessageKeys)
                 /\ Keyed(CalledAfter.skippedMessageKeys)
                       \ Keyed(b.skippedMessageKeys)
                       = {[dh |-> b.remotePublicKey, n |-> i,
                           mk |-> DeriveCK(ChainAdvance(b.recvChainKey,
                                                        i - b.recvN)).mk] :
                             i \in b.recvN .. (n - 1)}
                 /\ StoreGrowth = n - b.recvN
                 /\ CalledAfter.recvChainKey
                       = ChainAdvance(b.recvChainKey, n - b.recvN + 1)
                 /\ CalledMsg.Ciphertext.key
                       = DeriveCK(ChainAdvance(b.recvChainKey, n - b.recvN)).mk
                 /\ CalledAfter
                       = [b EXCEPT !.recvN = CalledAfter.recvN,
                                   !.recvChainKey = CalledAfter.recvChainKey,
                                   !.skippedMessageKeys =
                                       CalledAfter.skippedMessageKeys]]_vars

\* A Receive of the message of index 3 on a chain with RecvN = 1 has
\* succeeded: RecvN is 4 and the keys of indices 1 and 2 are in the store.
C24_Witness ==
    /\ last.op = "Receive"
    /\ last.err = NoErr
    /\ LastEntry.msg.Header.N = 3
    /\ sess[last.party].recvN = 4
    /\ {e.id.n : e \in sess[last.party].skippedMessageKeys} = {1, 2}
    /\ \A e \in sess[last.party].skippedMessageKeys :
          e.id.dh = sess[last.party].remotePublicKey

\* The store of d has a key for the pair (dh, n).
HasKeyFor(d, dh, n) ==
    \E e \in d.skippedMessageKeys : e.id.dh = dh /\ e.id.n = n

\* C25: a Receive whose header carries the stored remote public key as DH
\* and an N less than RecvN, the store having no key for (DH, N), fails with
\* "received message out of order (old)" and leaves every field of the
\* session as it was.
C25_OldMessageRejected ==
    [][(/\ last'.op \in {"Receive", "Fuzz"}
        /\ CalledMsg.Header.DH = CalledBefore.remotePublicKey
        /\ CalledMsg.Header.N < CalledBefore.recvN
        /\ ~HasKeyFor(CalledBefore, CalledMsg.Header.DH, CalledMsg.Header.N))
          => /\ last'.err = ErrOutOfOrder
             /\ last'.plaintext = "none"
             /\ CalledAfter = CalledBefore]_vars

\* A message that was received in its turn is delivered again: the call has
\* failed as out of order and the session has its two received messages and
\* an empty store.
C25_Witness ==
    /\ last.op = "Receive"
    /\ last.err = ErrOutOfOrder
    /\ LastEntry.msg.Header.DH = sess[last.party].remotePublicKey
    /\ LastEntry.msg.Header.N < sess[last.party].recvN
    /\ ~HasKeyFor(sess[last.party], LastEntry.msg.Header.DH,
                  LastEntry.msg.Header.N)
    /\ last.idx \in track[last.party].accepted
    /\ sess[last.party].recvN = 2
    /\ sess[last.party].skippedMessageKeys = {}

\* The Receive that last' describes found a stored key for its header and the
\* decryption under that key failed.
StoredKeyFailed ==
    /\ last'.op \in {"Receive", "Fuzz"}
    /\ MapHas(CalledBefore.skippedMessageKeys, HeaderKey(CalledMsg.Header))
    /\ Decrypt(MapGet(CalledBefore.skippedMessageKeys,
                      HeaderKey(CalledMsg.Header)),
               CalledMsg.Ciphertext, last'.ad).err # NoErr

\* C26: a Receive that finds a stored skipped key for its header and fails
\* to authenticate the message under it returns the decryption error, keeps
\* the entry in the store and changes no other field of the session, the
\* header being of the current receiving chain or of a retired one.
C26_StoredKeyFailureKeepsState ==
    [][StoredKeyFailed
          => /\ last'.err = ErrAuth
             /\ CalledAfter = CalledBefore]_vars

\* The Receive that last' describes found a stored key for its header and
\* decrypted the message under it.
StoredKeyUsed ==
    /\ last'.op \in {"Receive", "Fuzz"}
    /\ MapHas(CalledBefore.skippedMessageKeys, HeaderKey(CalledMsg.Header))
    /\ Decrypt(MapGet(CalledBefore.skippedMessageKeys,
                      HeaderKey(CalledMsg.Header)),
               CalledMsg.Ciphertext, last'.ad).err = NoErr

\* C27: a Receive that succeeds through a stored skipped key returns the
\* plaintext, removes that one entry from the store and changes nothing
\* else: RecvN, SendN, PrevN, the root key, both chain keys and both DH keys
\* are what they were, and no DH ratchet step is made, also when the header's
\* DH is not the stored remote public key.
C27_StoredKeyUseOnlyDeletes ==
    [][StoredKeyUsed
          => /\ last'.err = NoErr
             /\ last'.plaintext = CalledMsg.Ciphertext.pt
             /\ ~last'.ratchet
             /\ refreshes' = refreshes
             /\ Cardinality(CalledAfter.skippedMessageKeys)
                   = Cardinality(CalledBefore.skippedMessageKeys) - 1
             /\ CalledAfter
                   = [CalledBefore EXCEPT !.skippedMessageKeys =
                         {e \in @ : e.id # HeaderKey(CalledMsg.Header)}]]_vars

\* A message of a retired chain has been decrypted under its stored key: its
\* DH is not the stored remote public key, the session made no ratchet step,
\* and the store no longer has the key.
C27_Witness ==
    /\ last.op = "Receive"
    /\ last.err = NoErr
    /\ ~last.ratchet
    /\ LastDecrypted
    /\ LastEntry.msg.Header.DH # sess[last.party].remotePublicKey
    /\ ~MapHas(sess[last.party].skippedMessageKeys,
               HeaderKey(LastEntry.msg.Header))
    /\ sess[last.party].skippedMessageKeys # {}

\* The entries (DH, N, message key) of the indices from .. to - 1 of the
\* receiving chain of dh whose chain key is ck at index from.
ChainEntries(dh, ck, from, to) ==
    {[dh |-> dh, n |-> i, mk |-> DeriveCK(ChainAdvance(ck, i - from)).mk] :
        i \in from .. (to - 1)}

DecryptionAttempted ==
    /\ last'.op \in {"Receive", "Fuzz"}
    /\ \/ StoredKeyUsed
       \/ StoredKeyFailed
       \/ last'.err \in {NoErr, ErrAuth}

\* The number of DH ratchet steps of the call that last' describes: the key
\* pairs it drew.
RatchetSteps == refreshes' - refreshes

\* The header's DH is the stored remote public key and the call made no
\* ratchet step, or it is another key and the call made exactly one ratchet
\* step, to that key.
OneStepIffNewDH ==
    \/ /\ CalledMsg.Header.DH = CalledBefore.remotePublicKey
       /\ RatchetSteps = 0
       /\ ~last'.ratchet
       /\ CalledAfter.localPrivateKey = CalledBefore.localPrivateKey
    \/ /\ CalledMsg.Header.DH # CalledBefore.remotePublicKey
       /\ RatchetSteps = 1
       /\ last'.ratchet
       /\ CalledAfter.remotePublicKey = CalledMsg.Header.DH
       /\ CalledAfter.localPrivateKey # CalledBefore.localPrivateKey

\* C29 as stated: every Receive that attempts a decryption either has a
\* header whose DH is the stored remote public key and makes no DH ratchet
\* step, or has a header with another DH and makes exactly one; no Receive
\* makes more than one.
C29_EveryDecryptionZeroOrOneStep ==
    [][/\ DecryptionAttempted => OneStepIffNewDH
       /\ last'.op \in {"Receive", "Fuzz"} => RatchetSteps <= 1]_vars

\* C29 as the code has it: a Receive that decrypts under a stored skipped key
\* makes no ratchet step, whatever the header's DH; a Receive that gets to
\* decrypt under a key of a receiving chain has made no ratchet step when the
\* header's DH is the stored remote public key and exactly one, to the
\* header's DH, when it is not; no Receive makes more than one.
C29_ZeroOrOneStepUnlessStoredKey ==
    [][last'.op \in {"Receive", "Fuzz"} =>
          /\ RatchetSteps \in {0, 1}
          /\ StoredKeyUsed =>
                /\ RatchetSteps = 0
                /\ ~last'.ratchet
                /\ CalledAfter.remotePublicKey = CalledBefore.remotePublicKey
                /\ CalledAfter.localPrivateKey = CalledBefore.localPrivateKey
          /\ (~StoredKeyUsed /\ last'.err \in {NoErr, ErrAuth})
                => OneStepIffNewDH]_vars

\* After a Receive that ratcheted to a new chain, a delayed message of the
\* chain it left has been decrypted under its stored key: the header's DH is
\* not the stored remote public key and the call made no ratchet step.
C29_Witness ==
    /\ last.op = "Receive"
    /\ last.err = NoErr
    /\ ~last.ratchet
    /\ LastEntry.msg.Header.DH # sess[last.party].remotePublicKey
    /\ last.plaintext = LastEntry.pt
    /\ sess[last.party].prevN > 0
    /\ sess[last.party].recvN > 0
    /\ rotations # {}

\* The store of the session has a key for (DH, N) of the header of the call
\* that last' describes, and that key is the one the message was encrypted
\* under: the message is the one the key was stored for.
StoredForPair ==
    /\ last'.op \in {"Receive", "Fuzz"}
    /\ \E e \in CalledBefore.skippedMessageKeys :
          /\ e.id.dh = CalledMsg.Header.DH
          /\ e.id.n = CalledMsg.Header.N
          /\ Decrypt(e.mk, CalledMsg.Ciphertext, last'.ad).err = NoErr

\* C30: the skipped-key store is keyed by (remote DH public key bytes, N): a
\* key stored for (d, n) is found and used by Receive for a message whose
\* header has DH = d and N = n, whatever the header's PN; the message is
\* decrypted and the entry removed.
C30_StoreKeyedByDHAndN ==
    [][StoredForPair
          => /\ last'.err = NoErr
             /\ last'.plaintext = CalledMsg.Ciphertext.pt
             /\ ~HasKeyFor(CalledAfter, CalledMsg.Header.DH,
                           CalledMsg.Header.N)]_vars

----------------------------------------------------------------------------
(* Invariants of the counters, termination, reflection, replays.           *)

\* C31: in every reachable state, also after calls that returned an error,
\* SendN is the number of ChainKDF steps applied to the sending chain key
\* since it was seeded and RecvN is that number for the receiving chain key:
\* the counters do not decrease while the chain stays, and go back to 0 only
\* in a DH ratchet step that seeds the chain key anew.
C31_CountersTrackChains ==
    \A p \in Party :
        /\ sess[p].sendN = sess[p].sendChainKey.n
        /\ sess[p].recvN = sess[p].recvChainKey.n

\* The number of crypto.DeriveCK calls of Receive(msg, ad) on d: those of
\* skipMessageKeys on the chain it leaves, those of skipMessageKeys on the
\* chain of the header, and the one for the message key.
ReceiveDerivations(d, msg, ad, newPri) ==
    LET t == trySkippedMessageKeys(d, msg.Header, msg.Ciphertext, ad)
        steps(c) == ReceiveChain(c, msg, ad).d.recvChainKey.n
                       - c.recvChainKey.n
    IN  IF t.err = NoErr THEN 0
        ELSE IF msg.Header.DH # d.remotePublicKey
        THEN LET s == skipMessageKeys(d, d.recvN, msg.Header.PN)
                 r == dhRatchet(s.d, msg.Header.DH, newPri)
                 left == s.d.recvChainKey.n - d.recvChainKey.n
             IN  IF s.err # NoErr THEN 0
                 ELSE IF r.err # NoErr THEN left
                 ELSE left + steps(r.d)
        ELSE steps(d)

\* The messages that Receive can be handed on d, whatever their origin: any
\* header on the current chain or announcing another one, with N and PN up
\* to MaxSkip past the counters.
AnyMessages(d) ==
    {[Header |-> [DH |-> dh, N |-> n, PN |-> pn],
      Ciphertext |-> GarbageCiphertext] :
        dh \in {d.remotePublicKey, PublicKey(d.localPrivateKey),
                InvalidKeyBytes},
        n \in 0..(d.recvN + MaxSkip), pn \in 0..(d.recvN + MaxSkip)}

\* C32: every call of Send, Receive and Serialize returns and releases the
\* lock of the session, on the error returns too, so that a goroutine that
\* waits for the lock gets it; and a Receive makes at most
\* 2 * (MaxSkip - 1) + 1 chain-key derivations, whatever message it is given.
C32_CallsTerminateAndUnlock ==
    /\ \A t \in Goroutine : InCall(t) ~> ~InCall(t)
    /\ \A t \in Goroutine : (gor[t].pc = "lock") ~> InCall(t)
    /\ []((\A t \in Goroutine : ~InCall(t)) => mu = "none")
    /\ [](\A m \in AnyMessages(sess[Shared]) :
             ReceiveDerivations(sess[Shared], m, "ad1", NewPri)
                <= 2 * (MaxSkip - 1) + 1)

\* Three calls have returned, one of them a Receive with an error, the lock
\* is free, and a header for which Receive makes 2 * (MaxSkip - 1) + 1
\* derivations can be handed to the session.
C32_Witness ==
    /\ Len(acquired) = MaxCalls
    /\ \A k \in DOMAIN acquired : acquired[k].returned
    /\ \E k \in DOMAIN acquired :
          /\ acquired[k].call.op = "Receive"
          /\ acquired[k].result.err # NoErr
    /\ \E k \in DOMAIN acquired : acquired[k].call.op = "Send"
    /\ mu = "none"
    /\ \A t \in Goroutine : gor[t].pc = "idle"
    /\ \E m \in AnyMessages(sess[Shared]) :
          ReceiveDerivations(sess[Shared], m, "ad1", NewPri)
             = 2 * (MaxSkip - 1) + 1

\* C33: a session never decrypts a message of its own Send: in every
\* reachable state, Receive on any output of the session's own Send, with
\* the associated data of the Send, returns an error; and so did every such
\* call that was made.
C33_ReflectionRejected ==
    /\ last.op = "Reflect" => (last.err # NoErr /\ last.plaintext = "none")
    /\ \A p \in Party :
          \A i \in DOMAIN sent[p] :
              Receive(sess[p], sent[p][i].msg, sent[p][i].ad, NewPri).err
                 # NoErr

\* A session that has sent two messages and received one of its peer's has
\* been handed its own second message and has returned an error.
C33_Witness ==
    /\ last.op = "Reflect"
    /\ last.err # NoErr
    /\ last.idx = 2
    /\ track[last.party].accepted # {}

\* The fields of a session that belong to its sending side and to the DH
\* ratchet, and those that belong to its receiving side.
SendSide(d) ==
    <<d.sendChainKey, d.sendN, d.prevN, d.rootKey, d.localPrivateKey,
      d.remotePublicKey>>

RecvSide(d) ==
    <<d.recvChainKey, d.recvN, d.prevN, d.rootKey, d.localPrivateKey,
      d.remotePublicKey, d.skippedMessageKeys>>

\* C34: a Send changes at most SendChainKey and SendN: RecvChainKey, RecvN,
\* PrevN, RootKey, the local and remote DH keys and the skipped-key store are
\* what they were; a Receive whose header DH is the stored remote public key,
\* whatever it returns, leaves SendChainKey, SendN, PrevN, RootKey and both
\* DH keys as they were.
C34_SendAndReceiveFrames ==
    [][/\ last'.op = "Send" =>
             /\ RecvSide(CalledAfter) = RecvSide(CalledBefore)
             /\ sess'[Peer(last'.party)] = sess[Peer(last'.party)]
       /\ (/\ last'.op \in {"Receive", "Fuzz"}
           /\ CalledMsg.Header.DH = CalledBefore.remotePublicKey)
             => /\ SendSide(CalledAfter) = SendSide(CalledBefore)
                /\ sess'[Peer(last'.party)] = sess[Peer(last'.party)]]_vars

\* A session that has received on its current chain past a gap, and holds the
\* skipped key, has then sent a message: the Receive left SendN = 0 and the
\* Send left RecvN = 2 and the store.
C34_Witness ==
    /\ last.op = "Send"
    /\ sess[last.party].sendN = 1
    /\ sess[last.party].recvN = 2
    /\ Cardinality(sess[last.party].skippedMessageKeys) = 1
    /\ track[last.party].accepted = {2}

\* C35: a Receive of a message that the session has already decrypted
\* returns an error and leaves the whole session as it was, also when the
\* message is of a chain that a DH ratchet step has since retired.
C35_ReplayLeavesState ==
    [][(/\ last'.op = "Receive"
        /\ last'.idx \in track[last'.party].accepted)
          => /\ last'.err # NoErr
             /\ CalledAfter = CalledBefore]_vars

\* The session of p as New made it.
Fresh(p) ==
    IF p = "alice" THEN New(1, PublicKey(2), NilSalt)
                   ELSE New(2, PublicKey(1), NilSalt)

C37_StoreIsUndecryptedBelowRecvN ==
    \A p \in Party :
        LET d == sess[p]
            q == Peer(p)
            missing == {n \in 0..(d.recvN - 1) : (n + 1) \notin track[p].accepted}
        IN  /\ d.recvN <= sess[q].sendN
            /\ {e.id.n : e \in d.skippedMessageKeys} = missing
            /\ Cardinality(d.skippedMessageKeys) = Cardinality(missing)
            /\ \A e \in d.skippedMessageKeys :
                  /\ e.id.dh = d.remotePublicKey
                  /\ e.id.dh = sent[q][e.id.n + 1].msg.Header.DH
                  /\ e.mk = sent[q][e.id.n + 1].msg.Ciphertext.key

\* bob has received alice's third message first, with the keys of indices 0
\* and 1 stored, and then her second under its stored key: RecvN is 3 and
\* the store holds the key of index 0 alone.
C37_Witness ==
    /\ track["bob"].accepted = {2, 3}
    /\ sess["bob"].recvN = 3
    /\ sess["alice"].sendN >= 3
    /\ {e.id.n : e \in sess["bob"].skippedMessageKeys} = {0}
    /\ last.op = "Receive"
    /\ last.party = "bob"
    /\ last.idx = 2
    /\ last.err = NoErr

\* The Receive that last' describes was handed the ciphertext of an output of
\* the peer's Send under a header that is not the one Send produced.
HeaderAltered ==
    /\ last'.op = "Fuzz"
    /\ last'.msg.Ciphertext = sent[Peer(last'.party)][last'.idx].msg.Ciphertext
    /\ last'.msg.Header # sent[Peer(last'.party)][last'.idx].msg.Header

\* C38: Receive returns a plaintext only for a message whose header DH, N
\* and PN are those that the peer's Send produced for the ciphertext; a
\* message with the ciphertext of a Send and an altered header DH, N or PN
\* returns an error and leaves RecvN, SendN, PrevN and the skipped-key store
\* of the receiver as they were.
C38_HeaderIntegrity ==
    [][HeaderAltered
          => /\ last'.err # NoErr
             /\ CalledAfter.recvN = CalledBefore.recvN
             /\ CalledAfter.sendN = CalledBefore.sendN
             /\ CalledAfter.prevN = CalledBefore.prevN
             /\ CalledAfter.skippedMessageKeys
                   = CalledBefore.skippedMessageKeys]_vars

====
